---- MODULE Spec2Model ----
(***************************************************************************)
(* A model of keypeat's key auto-repeat registry (src/src/keys.rs).        *)
(*                                                                         *)
(* Instants and Durations are whole numbers of a unit of time: the second, *)
(* as in the repository's tests (SECOND, TIMEOUT = 5 s, INTERVAL = 1 s),   *)
(* or the tenth of a second (the example's preset of 500 ms and 200 ms).   *)
(* For whole seconds and a positive interval the f64 quotient              *)
(* diff.as_secs_f64() / interval.as_secs_f64() truncates to the integer    *)
(* quotient; for tenths of a second it may fall just below a whole number  *)
(* and truncate to one less (0.6 / 0.2 = 2.9999999999999996); with a zero  *)
(* interval it is NaN or infinite and the cast to usize saturates.         *)
(*                                                                         *)
(* A usize is held as the residue modulo 2^64 that is nearest to zero, so  *)
(* that usize::MAX = 2^64 - 1 is -1 and a wrapping addition is +.          *)
(*                                                                         *)
(* Option<T> is modelled as a set with at most one element: None is {} and *)
(* Some(x) is {x}.  The HashMap `pressed` is a function whose domain is    *)
(* the set of keys that have an entry; an entry is an Option<KeyState>.    *)
(***************************************************************************)
EXTENDS FiniteSets, Integers, Sequences, TLC

\* ------------------------------------------------------------------ bounds

\* The latest instant any call is made at, with every key in use.
MaxTime == 3

\* The latest instant any call is made at, with one key in use.
MaxTimeKey == 8

\* The largest backlog a re-press may carry over (on_press on ReleasePending).
MaxCarry == 2

\* The invocation of a key, within one tick call, on which a handler sets the
\* flag to KeyRepeat::Disabled (0: on none).
DisableAt == {0, 1, 2}

\* The key identifiers in use (K is generic; the tests use chars).
Key == {"h", "l"}

\* The (timeout, interval) pairs a registry is constructed with, with every
\* key in use.
Cadences == {<<2, 1>>, <<1, 2>>}

\* The same with one key in use; <<5, 1>> is the tests' TIMEOUT and INTERVAL.
CadencesKey == {<<5, 1>>, <<2, 1>>, <<1, 2>>, <<0, 1>>}

\* The latest instant any call is made at, in tenths of a second.
MaxTimeTenths == 11

\* The (timeout, interval) pairs in tenths of a second; <<5, 2>> is the
\* example's preset of 500 ms and 200 ms.
CadencesTenths == {<<5, 2>>, <<0, 1>>}

\* The handler's return type C: the tests' Change enum.
C == {"Unchanged", "Changed"}

\* ------------------------------------------------------------------ Option

None == {}

Some(x) == {x}

Unwrap(o) == CHOOSE x \in o : TRUE

\* ------------------------------------------------------------- min_instant

\* A variant of min_instant in which, of two deadlines, the second wins.
min_instant_second(a, b) ==
  CASE a = None /\ b = None -> None
    [] a # None /\ b = None -> a
    [] OTHER -> b

min_instant(a, b) ==
  CASE a = None /\ b = None -> None
    [] a # None /\ b = None -> a
    [] a = None /\ b # None -> b
    [] OTHER -> Some(IF Unwrap(a) <= Unwrap(b) THEN Unwrap(a) ELSE Unwrap(b))

\* ---------------------------------------------------------------- KeyState

Pressed(pressed_at, fire_count) ==
  [tag |-> "Pressed", pressed_at |-> pressed_at, fire_count |-> fire_count]

Repeated(pressed_at, next_repeat, fire_count) ==
  [tag |-> "Repeated", pressed_at |-> pressed_at, next_repeat |-> next_repeat,
   fire_count |-> fire_count]

ReleasePending(pressed_at, fire_count) ==
  [tag |-> "ReleasePending", pressed_at |-> pressed_at, fire_count |-> fire_count]

KeyState_pressed(pressed_at) == Pressed(pressed_at, 0)

\* A variant of on_press that keeps the first press's instant on a re-press.
KeyState_on_press_keep_time(self, now) ==
  CASE self.tag \in {"Pressed", "Repeated"} -> self
    [] self.tag = "ReleasePending" -> Pressed(self.pressed_at, self.fire_count)

\* A variant of on_press that takes every press for a new press.
KeyState_on_press_restart(self, now) ==
  CASE self.tag \in {"Pressed", "Repeated"} -> Pressed(now, self.fire_count)
    [] self.tag = "ReleasePending" -> Pressed(now, self.fire_count)

\* A variant of on_press in which a re-press forgets the undelivered events.
KeyState_on_press_drop_backlog(self, now) ==
  CASE self.tag \in {"Pressed", "Repeated"} -> self
    [] self.tag = "ReleasePending" -> Pressed(now, 0)

\* A variant of on_press that takes the press of a released key for a
\* repeated press and skips it.
KeyState_on_press_skip(self, now) ==
  CASE self.tag \in {"Pressed", "Repeated"} -> self
    [] self.tag = "ReleasePending" -> self

KeyState_on_press(self, now) ==
  CASE self.tag \in {"Pressed", "Repeated"} -> self
    [] self.tag = "ReleasePending" -> Pressed(now, self.fire_count)

\* Instant::saturating_duration_since
saturating_duration_since(now, earlier) ==
  IF now >= earlier THEN now - earlier ELSE 0

\* usize::MAX, as a residue modulo 2^64.
usize_MAX == -1

\* Whether a + b, an addition of two usize, overflows.
overflows(a, b) == (a < 0 /\ b > 0) \/ (a > 0 /\ b < 0)

\* The unit of time in milliseconds: 1000 or 100.
VARIABLE unit

\* The pairs <<diff, interval>> of tenths of a second, up to 4 s and 0.5 s,
\* whose f64 quotient diff.as_secs_f64() / interval.as_secs_f64(), with
\* as_secs_f64() = secs as f64 + nanos as f64 / 1e9, falls below the whole
\* number that diff / interval is (binary64, round to nearest even): thus
\* 0.3 / 0.1 = 2.9999999999999996 and 0.6 / 0.2 = 2.9999999999999996.  The
\* quotient of whole seconds is exact whenever it is a whole number.
RoundedBelow ==
  {<<3, 1>>, <<6, 1>>, <<7, 1>>, <<12, 1>>, <<14, 1>>, <<19, 1>>, <<23, 1>>,
   <<24, 1>>, <<28, 1>>, <<29, 1>>, <<33, 1>>, <<38, 1>>,
   <<6, 2>>, <<12, 2>>, <<14, 2>>, <<24, 2>>, <<28, 2>>, <<38, 2>>,
   <<12, 4>>, <<24, 4>>, <<28, 4>>}

\* (diff.as_secs_f64() / interval.as_secs_f64()).trunc() as usize.  With a
\* zero interval the quotient is NaN (0.0 / 0.0), which the cast turns into 0,
\* or infinite, which the cast turns into usize::MAX.
DivTrunc(diff, iv) ==
  IF iv > 0
  THEN IF unit = 100 /\ <<diff, iv>> \in RoundedBelow
       THEN (diff \div iv) - 1
       ELSE diff \div iv
  ELSE IF diff = 0 THEN 0 ELSE usize_MAX

\* A variant of on_release that accepts the release of a released key in
\* silence.
RECURSIVE KeyState_on_release_silent(_, _, _, _)
KeyState_on_release_silent(self, now, to, iv) ==
  CASE self.tag = "Pressed" ->
         LET next_repeat == self.pressed_at + to IN
         IF now >= next_repeat
         THEN KeyState_on_release_silent(
                Repeated(self.pressed_at, next_repeat, self.fire_count + 1),
                now, to, iv)
         ELSE [state |-> ReleasePending(self.pressed_at, self.fire_count + 1),
               assert_failed |-> FALSE, overflow |-> FALSE,
               unwound |-> ReleasePending(self.pressed_at, self.fire_count + 1)]
    [] self.tag = "Repeated" ->
         LET diff == saturating_duration_since(now, self.next_repeat)
             quotient == DivTrunc(diff, iv)
             count == self.fire_count + quotient
             fire_count == IF now > self.next_repeat THEN count + 1 ELSE count
             released == ReleasePending(self.pressed_at, fire_count)
         IN [state |-> released,
             assert_failed |-> FALSE,
             overflow |-> \/ overflows(self.fire_count, quotient)
                          \/ now > self.next_repeat /\ overflows(count, 1),
             unwound |-> IF overflows(self.fire_count, quotient) THEN self
                         ELSE IF now > self.next_repeat /\ overflows(count, 1)
                         THEN Repeated(self.pressed_at, self.next_repeat, count)
                         ELSE released]
    [] self.tag = "ReleasePending" ->
         [state |-> self, assert_failed |-> FALSE, overflow |-> FALSE,
          unwound |-> self]

\* A variant of on_release that promotes a Pressed key released late to
\* Repeated and stops there.
KeyState_on_release_promote_only(self, now, to, iv) ==
  CASE self.tag = "Pressed" ->
         LET next_repeat == self.pressed_at + to IN
         IF now >= next_repeat
         THEN [state |-> Repeated(self.pressed_at, next_repeat,
                                  self.fire_count + 1),
               assert_failed |-> FALSE, overflow |-> FALSE,
               unwound |-> Repeated(self.pressed_at, next_repeat,
                                    self.fire_count + 1)]
         ELSE [state |-> ReleasePending(self.pressed_at, self.fire_count + 1),
               assert_failed |-> FALSE, overflow |-> FALSE,
               unwound |-> ReleasePending(self.pressed_at, self.fire_count + 1)]
    [] self.tag = "Repeated" ->
         LET diff == saturating_duration_since(now, self.next_repeat)
             quotient == DivTrunc(diff, iv)
             count == self.fire_count + quotient
             fire_count == IF now > self.next_repeat THEN count + 1 ELSE count
             released == ReleasePending(self.pressed_at, fire_count)
         IN [state |-> released,
             assert_failed |-> FALSE,
             overflow |-> \/ overflows(self.fire_count, quotient)
                          \/ now > self.next_repeat /\ overflows(count, 1),
             unwound |-> IF overflows(self.fire_count, quotient) THEN self
                         ELSE IF now > self.next_repeat /\ overflows(count, 1)
                         THEN Repeated(self.pressed_at, self.next_repeat, count)
                         ELSE released]
    [] self.tag = "ReleasePending" ->
         [state |-> self, assert_failed |-> TRUE, overflow |-> FALSE,
          unwound |-> self]

\* The result is the new state, whether debug_assert!(false) was reached,
\* whether an addition to fire_count overflowed (the new state is then the one
\* of a build in which the addition wraps) and the state that the call leaves
\* when it panics there or at the assertion.
RECURSIVE KeyState_on_release(_, _, _, _)
KeyState_on_release(self, now, to, iv) ==
  CASE self.tag = "Pressed" ->
         LET next_repeat == self.pressed_at + to IN
         IF now >= next_repeat
         THEN KeyState_on_release(
                Repeated(self.pressed_at, next_repeat, self.fire_count + 1),
                now, to, iv)
         ELSE [state |-> ReleasePending(self.pressed_at, self.fire_count + 1),
               assert_failed |-> FALSE, overflow |-> FALSE,
               unwound |-> ReleasePending(self.pressed_at, self.fire_count + 1)]
    [] self.tag = "Repeated" ->
         LET diff == saturating_duration_since(now, self.next_repeat)
             quotient == DivTrunc(diff, iv)
             count == self.fire_count + quotient
             fire_count == IF now > self.next_repeat THEN count + 1 ELSE count
             released == ReleasePending(self.pressed_at, fire_count)
         IN [state |-> released,
             assert_failed |-> FALSE,
             overflow |-> \/ overflows(self.fire_count, quotient)
                          \/ now > self.next_repeat /\ overflows(count, 1),
             unwound |-> IF overflows(self.fire_count, quotient) THEN self
                         ELSE IF now > self.next_repeat /\ overflows(count, 1)
                         THEN Repeated(self.pressed_at, self.next_repeat, count)
                         ELSE released]
    [] self.tag = "ReleasePending" ->
         [state |-> self, assert_failed |-> TRUE, overflow |-> FALSE,
          unwound |-> self]

\* A variant of next_tick in which a released key is never due.
KeyState_next_tick_drop_released(self) ==
  CASE self.tag = "Pressed" -> Some(self.pressed_at)
    [] self.tag = "Repeated" ->
         IF self.fire_count > 0 THEN Some(self.pressed_at)
         ELSE Some(self.next_repeat)
    [] self.tag = "ReleasePending" -> None

KeyState_next_tick(self) ==
  CASE self.tag = "Pressed" -> Some(self.pressed_at)
    [] self.tag = "Repeated" ->
         IF self.fire_count > 0 THEN Some(self.pressed_at)
         ELSE Some(self.next_repeat)
    [] self.tag = "ReleasePending" ->
         IF self.fire_count > 0 THEN Some(self.pressed_at) ELSE None

\* A variant of tick that schedules the following repeat two intervals, not
\* one, later.
KeyState_tick_skip_repeat(self, to, iv) ==
  CASE self.tag = "Pressed" ->
         IF self.fire_count >= 1
         THEN Pressed(self.pressed_at, self.fire_count - 1)
         ELSE Repeated(self.pressed_at, self.pressed_at + to, 0)
    [] self.tag = "Repeated" ->
         IF self.fire_count >= 1
         THEN Repeated(self.pressed_at, self.next_repeat, self.fire_count - 1)
         ELSE Repeated(self.pressed_at, self.next_repeat + iv + iv, 0)
    [] self.tag = "ReleasePending" ->
         ReleasePending(self.pressed_at,
                        IF self.fire_count >= 1 THEN self.fire_count - 1 ELSE 0)

KeyState_tick(self, to, iv) ==
  CASE self.tag = "Pressed" ->
         IF self.fire_count >= 1
         THEN Pressed(self.pressed_at, self.fire_count - 1)
         ELSE Repeated(self.pressed_at, self.pressed_at + to, 0)
    [] self.tag = "Repeated" ->
         IF self.fire_count >= 1
         THEN Repeated(self.pressed_at, self.next_repeat, self.fire_count - 1)
         ELSE Repeated(self.pressed_at, self.next_repeat + iv, 0)
    [] self.tag = "ReleasePending" ->
         ReleasePending(self.pressed_at,
                        IF self.fire_count >= 1 THEN self.fire_count - 1 ELSE 0)

\* ------------------------------------------------------------ the handler

\* A variant of the combination in which the latest value replaces the
\* aggregate.
BitOr_replace(a, b) == b

\* The tests' BitOr for Change; `change |= x` is change' = BitOr(change, x).
BitOr(a, b) ==
  IF a = "Changed" \/ b = "Changed" THEN "Changed" ELSE "Unchanged"

\* C::default()
Default == "Unchanged"

\* What a handler does with one key during one tick call: the value it
\* returns, and the invocation (1st, 2nd, ...) on which it sets the flag to
\* KeyRepeat::Disabled (0: it leaves the flag Enabled every time).  A handler
\* that disables repeat returns Changed, as the tests' does.
Behaviour ==
  {[ret |-> c, dis |-> 0] : c \in C}
    \cup {[ret |-> "Changed", dis |-> d] : d \in DisableAt \ {0}}

HandlerOf(ks) == [ks -> Behaviour]

\* -------------------------------------------------------------------- Keys

\* HashMap::new()
EmptyMap == [k \in {} |-> None]

Insert(map, key, value) == (key :> value) @@ map

Remove(map, key) == [k \in (DOMAIN map) \ {key} |-> map[k]]

\* The keys with a state, i.e. an entry that is not a tombstone.
Live(map) == {k \in DOMAIN map : map[k] # None}

\* A variant of on_key_event that takes the release of a key whose entry is a
\* tombstone for the release of a key that was not pressed.
Keys_on_key_event_tombstone(map, now, key, is_pressed, to, iv) ==
  IF ~is_pressed
  THEN IF key \notin DOMAIN map
       THEN [pressed |-> map, assert_failed |-> FALSE, overflow |-> FALSE]
       ELSE IF map[key] # None
            THEN LET r == KeyState_on_release(Unwrap(map[key]), now, to, iv)
                 IN [pressed |-> [map EXCEPT ![key] = Some(r.state)],
                     assert_failed |-> r.assert_failed,
                     overflow |-> r.overflow,
                     unwound |-> [map EXCEPT ![key] = Some(r.unwound)]]
            ELSE [pressed |-> map, assert_failed |-> TRUE, overflow |-> FALSE,
                  unwound |-> map]
  ELSE IF key \notin DOMAIN map
       THEN [pressed |-> Insert(map, key, Some(KeyState_pressed(now))),
             assert_failed |-> FALSE, overflow |-> FALSE]
       ELSE IF map[key] # None
            THEN [pressed |-> [map EXCEPT ![key] =
                                 Some(KeyState_on_press(Unwrap(map[key]), now))],
                  assert_failed |-> FALSE, overflow |-> FALSE]
            ELSE [pressed |-> [map EXCEPT ![key] = Some(KeyState_pressed(now))],
                  assert_failed |-> FALSE, overflow |-> FALSE]

\* A variant of on_key_event in which the release of a key without an entry
\* leaves an empty entry behind.
Keys_on_key_event_vacant(map, now, key, is_pressed, to, iv) ==
  IF ~is_pressed
  THEN IF key \notin DOMAIN map
       THEN [pressed |-> Insert(map, key, None),
             assert_failed |-> FALSE, overflow |-> FALSE]
       ELSE IF map[key] # None
            THEN LET r == KeyState_on_release(Unwrap(map[key]), now, to, iv)
                 IN [pressed |-> [map EXCEPT ![key] = Some(r.state)],
                     assert_failed |-> r.assert_failed,
                     overflow |-> r.overflow,
                     unwound |-> [map EXCEPT ![key] = Some(r.unwound)]]
            ELSE [pressed |-> Remove(map, key),
                  assert_failed |-> FALSE, overflow |-> FALSE]
  ELSE IF key \notin DOMAIN map
       THEN [pressed |-> Insert(map, key, Some(KeyState_pressed(now))),
             assert_failed |-> FALSE, overflow |-> FALSE]
       ELSE IF map[key] # None
            THEN [pressed |-> [map EXCEPT ![key] =
                                 Some(KeyState_on_press(Unwrap(map[key]), now))],
                  assert_failed |-> FALSE, overflow |-> FALSE]
            ELSE [pressed |-> [map EXCEPT ![key] = Some(KeyState_pressed(now))],
                  assert_failed |-> FALSE, overflow |-> FALSE]

\* A variant of on_key_event in which a press finds the tombstone of a key
\* and leaves it as it is.
Keys_on_key_event_press_lost(map, now, key, is_pressed, to, iv) ==
  IF ~is_pressed
  THEN IF key \notin DOMAIN map
       THEN [pressed |-> map, assert_failed |-> FALSE, overflow |-> FALSE]
       ELSE IF map[key] # None
            THEN LET r == KeyState_on_release(Unwrap(map[key]), now, to, iv)
                 IN [pressed |-> [map EXCEPT ![key] = Some(r.state)],
                     assert_failed |-> r.assert_failed,
                     overflow |-> r.overflow,
                     unwound |-> [map EXCEPT ![key] = Some(r.unwound)]]
            ELSE [pressed |-> Remove(map, key),
                  assert_failed |-> FALSE, overflow |-> FALSE]
  ELSE IF key \notin DOMAIN map
       THEN [pressed |-> Insert(map, key, Some(KeyState_pressed(now))),
             assert_failed |-> FALSE, overflow |-> FALSE]
       ELSE IF map[key] # None
            THEN [pressed |-> [map EXCEPT ![key] =
                                 Some(KeyState_on_press(Unwrap(map[key]), now))],
                  assert_failed |-> FALSE, overflow |-> FALSE]
            ELSE [pressed |-> map, assert_failed |-> FALSE, overflow |-> FALSE]

\* The result is the new map, whether a debug_assert! failed, whether an
\* addition overflowed and, for a call that can panic, the map it then leaves.
Keys_on_key_event(map, now, key, is_pressed, to, iv) ==
  IF ~is_pressed
  THEN IF key \notin DOMAIN map
       THEN [pressed |-> map, assert_failed |-> FALSE, overflow |-> FALSE]
       ELSE IF map[key] # None
            THEN LET r == KeyState_on_release(Unwrap(map[key]), now, to, iv)
                 IN [pressed |-> [map EXCEPT ![key] = Some(r.state)],
                     assert_failed |-> r.assert_failed,
                     overflow |-> r.overflow,
                     unwound |-> [map EXCEPT ![key] = Some(r.unwound)]]
            ELSE [pressed |-> Remove(map, key),
                  assert_failed |-> FALSE, overflow |-> FALSE]
  ELSE IF key \notin DOMAIN map
       THEN [pressed |-> Insert(map, key, Some(KeyState_pressed(now))),
             assert_failed |-> FALSE, overflow |-> FALSE]
       ELSE IF map[key] # None
            THEN [pressed |-> [map EXCEPT ![key] =
                                 Some(KeyState_on_press(Unwrap(map[key]), now))],
                  assert_failed |-> FALSE, overflow |-> FALSE]
            ELSE [pressed |-> [map EXCEPT ![key] = Some(KeyState_pressed(now))],
                  assert_failed |-> FALSE, overflow |-> FALSE]

Keys_on_key_press(map, now, key, to, iv) ==
  Keys_on_key_event(map, now, key, TRUE, to, iv)

Keys_on_key_release(map, now, key, to, iv) ==
  Keys_on_key_event(map, now, key, FALSE, to, iv)

\* A variant of the inner loop in which a key the handler disabled is
\* tombstoned only after what is due for it has been delivered.
RECURSIVE key_loop_drain_disabled(_, _, _, _, _, _)
key_loop_drain_disabled(key_state, now, h, to, iv, n) ==
  LET tick == KeyState_next_tick(key_state) IN
  IF tick # None
  THEN IF Unwrap(tick) > now
       THEN [slot |-> Some(key_state), calls |-> n, due |-> tick,
             emptied |-> FALSE, disabled |-> FALSE]
       ELSE IF h.dis = n + 1
            THEN LET rest == key_loop_drain_disabled(
                               KeyState_tick(key_state, to, iv), now,
                               [h EXCEPT !.dis = 0], to, iv, n + 1)
                 IN [slot |-> None, calls |-> rest.calls, due |-> None,
                     emptied |-> TRUE, disabled |-> TRUE]
            ELSE key_loop_drain_disabled(KeyState_tick(key_state, to, iv), now, h,
                                         to, iv, n + 1)
  ELSE [slot |-> None, calls |-> n, due |-> None,
        emptied |-> TRUE, disabled |-> FALSE]

\* A variant of the inner loop that takes a deadline equal to now for not
\* yet due.
RECURSIVE key_loop_not_yet(_, _, _, _, _, _)
key_loop_not_yet(key_state, now, h, to, iv, n) ==
  LET tick == KeyState_next_tick(key_state) IN
  IF tick # None
  THEN IF Unwrap(tick) >= now
       THEN [slot |-> Some(key_state), calls |-> n, due |-> tick,
             emptied |-> FALSE, disabled |-> FALSE]
       ELSE IF h.dis = n + 1
            THEN [slot |-> None, calls |-> n + 1, due |-> None,
                  emptied |-> TRUE, disabled |-> TRUE]
            ELSE key_loop_not_yet(KeyState_tick(key_state, to, iv), now, h,
                                  to, iv, n + 1)
  ELSE [slot |-> None, calls |-> n, due |-> None,
        emptied |-> TRUE, disabled |-> FALSE]

\* A variant of the inner loop that does not empty the slot of a key the
\* handler disabled.
RECURSIVE key_loop_keep_disabled(_, _, _, _, _, _)
key_loop_keep_disabled(key_state, now, h, to, iv, n) ==
  LET tick == KeyState_next_tick(key_state) IN
  IF tick # None
  THEN IF Unwrap(tick) > now
       THEN [slot |-> Some(key_state), calls |-> n, due |-> tick,
             emptied |-> FALSE, disabled |-> FALSE]
       ELSE IF h.dis = n + 1
            THEN [slot |-> Some(key_state), calls |-> n + 1, due |-> None,
                  emptied |-> FALSE, disabled |-> TRUE]
            ELSE key_loop_keep_disabled(KeyState_tick(key_state, to, iv), now, h,
                                        to, iv, n + 1)
  ELSE [slot |-> None, calls |-> n, due |-> None,
        emptied |-> TRUE, disabled |-> FALSE]

\* The inner `loop` of tick for one key that has a state: n is the number of
\* handler invocations made for the key so far in this call.  The result is
\* the key's slot afterwards, the number of invocations, the deadline handed
\* to min_instant (None if none was), whether the slot was emptied and
\* whether the handler disabled repeat.
RECURSIVE key_loop(_, _, _, _, _, _)
key_loop(key_state, now, h, to, iv, n) ==
  LET tick == KeyState_next_tick(key_state) IN
  IF tick # None
  THEN IF Unwrap(tick) > now
       THEN [slot |-> Some(key_state), calls |-> n, due |-> tick,
             emptied |-> FALSE, disabled |-> FALSE]
       ELSE IF h.dis = n + 1
            THEN [slot |-> None, calls |-> n + 1, due |-> None,
                  emptied |-> TRUE, disabled |-> TRUE]
            ELSE key_loop(KeyState_tick(key_state, to, iv), now, h, to, iv, n + 1)
  ELSE [slot |-> None, calls |-> n, due |-> None,
        emptied |-> TRUE, disabled |-> FALSE]

\* A variant of the loop over the entries that also schedules a tombstone it
\* skips for removal.
RECURSIVE next_key_reclaim(_, _, _, _, _, _, _)
next_key_reclaim(acc, order, i, now, handler, to, iv) ==
  IF i > Len(order) THEN acc
  ELSE LET key == order[i] IN
       IF acc.pressed[key] = None
       THEN next_key_reclaim(
              [acc EXCEPT !.remove = IF acc.remove # None THEN acc.remove
                                     ELSE Some(key)],
              order, i + 1, now, handler, to, iv)
       ELSE LET r == key_loop(Unwrap(acc.pressed[key]), now, handler[key], to, iv, 0)
            IN next_key_reclaim(
                 [pressed |-> [acc.pressed EXCEPT ![key] = r.slot],
                  change |-> IF r.calls > 0 THEN BitOr(acc.change, handler[key].ret)
                             ELSE acc.change,
                  next_tick |-> IF r.due # None THEN min_instant(acc.next_tick, r.due)
                                ELSE acc.next_tick,
                  remove |-> IF r.emptied
                             THEN (IF acc.remove # None THEN acc.remove ELSE Some(key))
                             ELSE acc.remove,
                  calls |-> [acc.calls EXCEPT ![key] = r.calls],
                  due |-> [acc.due EXCEPT ![key] = r.due],
                  disabled |-> IF r.disabled THEN acc.disabled \cup {key}
                               ELSE acc.disabled],
                 order, i + 1, now, handler, to, iv)

\* The `'next_key: for` loop of tick over the map's entries, visited in
\* `order` (a HashMap's iteration order is unspecified), from entry i on.
RECURSIVE next_key(_, _, _, _, _, _, _)
next_key(acc, order, i, now, handler, to, iv) ==
  IF i > Len(order) THEN acc
  ELSE LET key == order[i] IN
       IF acc.pressed[key] = None
       THEN next_key(acc, order, i + 1, now, handler, to, iv)
       ELSE LET r == key_loop(Unwrap(acc.pressed[key]), now, handler[key], to, iv, 0)
            IN next_key(
                 [pressed |-> [acc.pressed EXCEPT ![key] = r.slot],
                  change |-> IF r.calls > 0 THEN BitOr(acc.change, handler[key].ret)
                             ELSE acc.change,
                  next_tick |-> IF r.due # None THEN min_instant(acc.next_tick, r.due)
                                ELSE acc.next_tick,
                  remove |-> IF r.emptied
                             THEN (IF acc.remove # None THEN acc.remove ELSE Some(key))
                             ELSE acc.remove,
                  calls |-> [acc.calls EXCEPT ![key] = r.calls],
                  due |-> [acc.due EXCEPT ![key] = r.due],
                  disabled |-> IF r.disabled THEN acc.disabled \cup {key}
                               ELSE acc.disabled],
                 order, i + 1, now, handler, to, iv)

\* The iteration orders of a map's entries.
Orders(map) ==
  {o \in [1..Cardinality(DOMAIN map) -> DOMAIN map] :
     \A i, j \in DOMAIN o : i # j => o[i] # o[j]}

\* tick: the result is the new map, the returned pair (change, next_tick),
\* per key the number of handler invocations and the deadline it contributed,
\* the keys the handler disabled, and whether debug_assert! failed.
Keys_tick(map, now, handler, order, to, iv) ==
  LET acc == next_key([pressed |-> map, change |-> Default, next_tick |-> None,
                       remove |-> None, calls |-> [k \in Key |-> 0],
                       due |-> [k \in Key |-> None], disabled |-> {}],
                      order, 1, now, handler, to, iv)
  IN IF acc.remove # None
     THEN LET key == Unwrap(acc.remove)
              state == IF key \in DOMAIN acc.pressed
                       THEN Some(acc.pressed[key]) ELSE None
          IN [pressed |-> Remove(acc.pressed, key), change |-> acc.change,
              next_tick |-> acc.next_tick, calls |-> acc.calls, due |-> acc.due,
              disabled |-> acc.disabled, assert_failed |-> state = None]
     ELSE [pressed |-> acc.pressed, change |-> acc.change,
           next_tick |-> acc.next_tick, calls |-> acc.calls, due |-> acc.due,
           disabled |-> acc.disabled, assert_failed |-> FALSE]

\* A variant of clear that drops the tombstones and keeps the live keys.
Keys_clear_tombstones(map) == [k \in Live(map) |-> map[k]]

\* clear
Keys_clear(map) == EmptyMap

\* ------------------------------------------------------------------- state

VARIABLES
  timeout,           \* Keys::timeout
  interval,          \* Keys::interval
  pressed,           \* Keys::pressed
  panicked,          \* a debug_assert! failed: the call panicked
  keys,              \* the keys the caller sends events for
  horizon,           \* the latest instant the caller makes a call at
  clock,             \* the instant of the latest call
  lastOp,            \* the latest call: "tick", "release" or another ("other");
                     \* or where a tick taken step by step is (see Running)
  change,            \* the aggregate the latest call, a tick, returned
  next_tick,         \* the deadline the latest call, a tick, returned
  calls,             \* per key, the handler invocations of the latest call, a tick
  due,               \* per key, the deadline it contributed to the latest tick
  disabled,          \* the keys the handler disabled repeat for, not pressed since
  watch,             \* the keys whose history is recorded
  alternate,         \* the caller sends each key's events in turn: press,
                     \* release, press, ...
  down,              \* if so, the keys whose latest event was a press
  hist               \* per watched key, what happened since its latest press

vars == <<unit, timeout, interval, pressed, panicked, keys, horizon, clock,
          lastOp, change, next_tick, calls, due, disabled, watch, alternate,
          down, hist>>

\* What a failed debug_assert! does: it panics in a build that keeps debug
\* assertions (cfg(debug_assertions), the tests' profile) and is compiled out,
\* so that the call goes on, in a build that does not.  An addition that
\* overflows does the same: it panics in a build with overflow checks, which
\* the profiles turn on and off with the debug assertions, and wraps without.
Panics(assert_failed) == IF assert_failed THEN {TRUE, FALSE} ELSE {FALSE}

\* The history of a key since the press that gave it its state:
\*   active  it was pressed and the history is kept
\*   re      that press was a re-press of a ReleasePending key
\*   p       the instant of that press
\*   n       the backlog that press carried over
\*   r       the instant of the release since (an Option)
\*   nt      the ticks since the press and before the release (2: two or more)
\*   lt      the instant of the latest of these ticks (an Option)
\*   ta      a tick visited the key after the release
\*   fired   the handler invocations since the press
\*   off     the handler disabled repeat
Idle ==
  [active |-> FALSE, re |-> FALSE, p |-> 0, n |-> 0, r |-> None, nt |-> 0,
   lt |-> None, ta |-> FALSE, fired |-> 0, off |-> FALSE]

\* The history of a key at the start of a call: that of a key whose state is
\* gone is forgotten.
Hist(k) == IF k \in Live(pressed) THEN hist[k] ELSE Idle

NoCalls == [k \in Key |-> 0]

NoDue == [k \in Key |-> None]

InitUnit(ks, ws, cs, end, alt, ms) ==
  /\ unit = ms
  /\ \E c \in cs : timeout = c[1] /\ interval = c[2]
  /\ alternate = alt
  /\ down = {}
  /\ pressed = EmptyMap
  /\ panicked = FALSE
  /\ keys = ks
  /\ horizon = end
  /\ clock = 0
  /\ lastOp = "other"
  /\ change = Default
  /\ next_tick = None
  /\ calls = NoCalls
  /\ due = NoDue
  /\ disabled = {}
  /\ watch = ws
  /\ hist = [k \in Key |-> Idle]

\* The registry used with whole seconds.
InitStream(ks, ws, cs, end, alt) == InitUnit(ks, ws, cs, end, alt, 1000)

\* The registry whose caller sends the events of a key in any order.
InitWith(ks, ws, cs, end) == InitStream(ks, ws, cs, end, FALSE)

\* on_key_press(now, key).  The press starts a history when it creates a
\* state (the key had none) or re-presses a ReleasePending key, whose backlog
\* n it carries over.
Press(key, now) ==
  LET live == key \in Live(pressed)
      repress == live /\ Unwrap(pressed[key]).tag = "ReleasePending"
      r == Keys_on_key_press(pressed, now, key, timeout, interval)
  IN /\ ~panicked
     /\ alternate => key \notin down
     /\ down' = IF alternate THEN down \cup {key} ELSE down
     /\ repress => Unwrap(pressed[key]).fire_count <= MaxCarry
     /\ pressed' = r.pressed
     /\ panicked' \in Panics(r.assert_failed)
     /\ clock' = now
     /\ lastOp' = "other"
     /\ change' = Default
     /\ next_tick' = None
     /\ calls' = NoCalls
     /\ due' = NoDue
     /\ disabled' = disabled \ {key}
     /\ hist' = [k \in Key |->
                   IF k = key /\ k \in watch /\ (~live \/ repress)
                   THEN [active |-> TRUE, re |-> repress, p |-> now,
                         n |-> IF repress THEN Unwrap(pressed[key]).fire_count ELSE 0,
                         r |-> None, nt |-> 0, lt |-> None, ta |-> FALSE,
                         fired |-> 0, off |-> FALSE]
                   ELSE Hist(k)]
     /\ UNCHANGED <<unit, timeout, interval, keys, horizon, watch, alternate>>

\* on_key_release(now, key).  A failed debug_assert! panics before anything
\* is changed.
Release(key, now) ==
  LET r == Keys_on_key_release(pressed, now, key, timeout, interval)
      held == /\ key \in Live(pressed)
              /\ Unwrap(pressed[key]).tag \in {"Pressed", "Repeated"}
  IN /\ ~panicked
     /\ alternate => key \in down
     /\ down' = IF alternate THEN down \ {key} ELSE down
     /\ panicked' \in Panics(r.assert_failed \/ r.overflow)
     /\ pressed' = IF panicked' THEN r.unwound ELSE r.pressed
     /\ clock' = now
     /\ lastOp' = "release"
     /\ change' = Default
     /\ next_tick' = None
     /\ calls' = NoCalls
     /\ due' = NoDue
     /\ disabled' = disabled
     /\ hist' = [k \in Key |->
                   IF k = key /\ k \in watch /\ held
                   THEN [hist[k] EXCEPT !.r = Some(now)]
                   ELSE Hist(k)]
     /\ UNCHANGED <<unit, timeout, interval, keys, horizon, watch, alternate>>

\* tick(now, handler), the map being iterated in `order`.
Tick(now, handler, order) ==
  /\ ~panicked
  /\ \E r \in {Keys_tick(pressed, now, handler, order, timeout, interval)} :
     /\ pressed' = r.pressed
     /\ panicked' \in Panics(r.assert_failed)
     /\ clock' = now
     /\ lastOp' = "tick"
     /\ change' = r.change
     /\ next_tick' = r.next_tick
     /\ calls' = r.calls
     /\ due' = r.due
     /\ disabled' = disabled \cup r.disabled
     /\ hist' = [k \in Key |->
                   IF k \in Live(pressed) /\ k \in watch
                   THEN [hist[k] EXCEPT
                           !.nt = IF hist[k].r = None /\ @ < 2 THEN @ + 1 ELSE @,
                           !.lt = IF hist[k].r = None THEN Some(now) ELSE @,
                           !.ta = (hist[k].r # None),
                           !.fired = @ + r.calls[k],
                           !.off = (k \in r.disabled)]
                   ELSE Hist(k)]
     /\ UNCHANGED <<unit, timeout, interval, keys, horizon, watch, alternate, down>>

\* clear()
Clear ==
  /\ ~panicked
  /\ pressed' = Keys_clear(pressed)
  /\ panicked' = FALSE
  /\ lastOp' = "other"
  /\ change' = Default
  /\ next_tick' = None
  /\ calls' = NoCalls
  /\ due' = NoDue
  /\ disabled' = disabled
  /\ hist' = [k \in Key |-> Idle]
  /\ UNCHANGED <<unit, timeout, interval, keys, horizon, clock, watch, alternate,
                 down>>

Next ==
  \/ \E key \in keys, now \in clock..horizon : Press(key, now)
  \/ \E key \in keys, now \in clock..horizon : Release(key, now)
  \/ \E now \in clock..horizon, handler \in HandlerOf(Live(pressed)),
        order \in Orders(pressed) : Tick(now, handler, order)
  \/ Clear

\* The registry used with every key; no history is recorded.
Init == InitWith(Key, {}, Cadences, MaxTime)

Spec == Init /\ [][Next]_vars

\* The registry used with one key, whose history is recorded.
InitKey == InitWith({"h"}, {"h"}, CadencesKey, MaxTimeKey)

SpecKey == InitKey /\ [][Next]_vars

\* The registry used with one key, whose history is recorded, and tenths of a
\* second.
InitTenths ==
  InitUnit({"h"}, {"h"}, CadencesTenths, MaxTimeTenths, FALSE, 100)

SpecTenths == InitTenths /\ [][Next]_vars

\* The registry used with one key, while releases also arrive for the keys
\* that are never pressed (those outside `keys`).
NextStray ==
  \/ Next
  \/ \E key \in Key \ keys, now \in clock..horizon : Release(key, now)

InitStray == InitWith({"h"}, {}, Cadences, MaxTime)

SpecStray == InitStray /\ [][NextStray]_vars

\* ------------------------------------------------- tick, one pass at a time

\* The invocations of one tick call are counted up to MaxCalls.
MaxCalls == 3

\* Keys::new takes any two durations, zero included.
CadencesZero == {<<1, 0>>, <<0, 0>>, <<1, 1>>}

KeyRepeat == {"Enabled", "Disabled"}

\* A call of tick has been entered and has not returned: it is at the head
\* of the inner loop (lastOp = "loop") or at the `match repeat` that follows
\* a handler invocation, `repeat` being what the handler left (lastOp =
\* "Enabled" or "Disabled").
Running == lastOp \in {"loop"} \cup KeyRepeat

\* tick(now, handler) is entered: change, next_tick and remove are set up.
TickEnter(now) ==
  /\ ~panicked
  /\ ~Running
  /\ clock' = now
  /\ lastOp' = "loop"
  /\ change' = Default
  /\ next_tick' = None
  /\ calls' = NoCalls
  /\ due' = NoDue
  /\ UNCHANGED <<unit, timeout, interval, pressed, panicked, keys, horizon,
                 disabled, watch, alternate, down, hist>>

\* The head of the inner loop for the only entry `key` of the map: the call
\* returns if the entry is missing or a tombstone, if the key has no deadline
\* (it is tombstoned and removed) or if its deadline is after now; otherwise
\* the handler is invoked, returns `ret` and leaves the flag as `repeat`.
TickPass(key, repeat, ret) ==
  /\ lastOp = "loop"
  /\ UNCHANGED <<unit, timeout, interval, panicked, keys, horizon, clock, disabled,
                 watch, alternate, down, hist>>
  /\ IF key \notin Live(pressed)
     THEN /\ lastOp' = "tick"
          /\ UNCHANGED <<pressed, change, next_tick, calls, due>>
     ELSE LET tick == KeyState_next_tick(Unwrap(pressed[key]))
          IN IF tick = None
             THEN /\ pressed' = Remove(pressed, key)
                  /\ lastOp' = "tick"
                  /\ UNCHANGED <<change, next_tick, calls, due>>
             ELSE IF Unwrap(tick) > clock
             THEN /\ next_tick' = min_instant(next_tick, tick)
                  /\ due' = [due EXCEPT ![key] = tick]
                  /\ lastOp' = "tick"
                  /\ UNCHANGED <<pressed, change, calls>>
             ELSE /\ change' = BitOr(change, ret)
                  /\ calls' = [calls EXCEPT
                                 ![key] = IF @ < MaxCalls THEN @ + 1 ELSE @]
                  /\ lastOp' = repeat
                  /\ UNCHANGED <<pressed, next_tick, due>>

\* `match repeat` after a handler invocation for `key`: Disabled tombstones
\* the key, which is removed as the call returns; Enabled advances the key's
\* state and goes back to the head of the loop.
TickMatch(key) ==
  /\ lastOp \in KeyRepeat
  /\ UNCHANGED <<unit, timeout, interval, panicked, keys, horizon, clock, change,
                 next_tick, calls, due, watch, alternate, down, hist>>
  /\ IF lastOp = "Disabled"
     THEN /\ pressed' = Remove(pressed, key)
          /\ disabled' = disabled \cup {key}
          /\ lastOp' = "tick"
     ELSE /\ pressed' = [pressed EXCEPT ![key] =
                Some(KeyState_tick(Unwrap(pressed[key]), timeout, interval))]
          /\ disabled' = disabled
          /\ lastOp' = "loop"

\* A step of a call of tick that has been entered.
TickRun ==
  \/ \E key \in keys, repeat \in KeyRepeat, ret \in C : TickPass(key, repeat, ret)
  \/ \E key \in keys : TickMatch(key)

\* The registry used with one key, tick being taken step by step.
NextLoop ==
  \/ \E key \in keys, now \in clock..horizon : ~Running /\ Press(key, now)
  \/ \E key \in keys, now \in clock..horizon :
       ~Running /\ Release(key, now)
  \/ \E now \in clock..horizon : TickEnter(now)
  \/ TickRun
  \/ ~Running /\ Clear

InitLoop == InitWith({"h"}, {}, CadencesZero, MaxTime)

\* A call of tick that has been entered goes on running.
SpecLoop == InitLoop /\ [][NextLoop]_vars /\ WF_vars(TickRun)

\* The registry used with every key by a caller that sends each key's events
\* in turn, starting with a press.
InitAlternate == InitStream(Key, {}, Cadences, MaxTime, TRUE)

SpecAlternate == InitAlternate /\ [][Next]_vars

\* ------------------------------------------------------------------ claims

Min(S) == CHOOSE x \in S : \A y \in S : x <= y

\* The repeat deadlines of a key pressed at p: p + timeout + j * interval.
Deadlines(p) == {p + timeout + j * interval : j \in 0..(horizon + 1)}

\* The key has a state of the given kind.
Is(k, tags) == k \in Live(pressed) /\ Unwrap(pressed[k]).tag \in tags

\* C1.  Steady-state cadence: after a tick at `clock`, a key pressed afresh
\* at p (no backlog carried), not released since and not disabled by the
\* handler has had 1 + #{deadlines <= clock} handler invocations since the
\* press, whatever ticks were skipped, and the deadline it reports is the
\* earliest repeat deadline after `clock`.
C1_SteadyCadence ==
  \A k \in watch :
    (/\ lastOp = "tick"
     /\ hist[k].active /\ hist[k].n = 0 /\ hist[k].r = None /\ ~hist[k].off)
    => /\ hist[k].fired = 1 + Cardinality({d \in Deadlines(hist[k].p) : d <= clock})
       /\ due[k] = Some(Min({d \in Deadlines(hist[k].p) : d > clock}))

\* A second tick that delivered several repeats at once (ticks were skipped).
C1_Witness ==
  \E k \in watch :
    /\ lastOp = "tick"
    /\ hist[k].active /\ hist[k].n = 0 /\ ~hist[k].re /\ hist[k].r = None
    /\ ~hist[k].off /\ hist[k].nt = 2
    /\ calls[k] >= 2 /\ hist[k].fired >= 3

\* C2.  Release at or after the threshold with no tick since the press: the
\* first tick invokes the handler (which leaves repeat enabled)
\* 1 + (r - (p + timeout)) div interval + (1 if r > p + timeout) times and
\* reports no deadline.
C2_LateRelease ==
  \A k \in watch :
    (/\ lastOp = "tick"
     /\ hist[k].active /\ hist[k].n = 0 /\ hist[k].nt = 0 /\ hist[k].ta
     /\ ~hist[k].off
     /\ hist[k].r # None /\ Unwrap(hist[k].r) >= hist[k].p + timeout)
    => /\ calls[k] = 1 + ((Unwrap(hist[k].r) - (hist[k].p + timeout)) \div interval)
                       + (IF Unwrap(hist[k].r) > hist[k].p + timeout THEN 1 ELSE 0)
       /\ due[k] = None
       /\ next_tick = None

\* C3.  Press, then release before the threshold with no tick in between: the
\* next tick invokes the handler exactly once for the key, reports no deadline
\* for it and leaves it without a state; and a tick invokes the handler zero
\* times, and reports no deadline, for a key that had no state before it.
C3_EarlyRelease ==
  \A k \in watch :
    /\ (/\ lastOp = "tick"
        /\ hist[k].active /\ hist[k].n = 0 /\ hist[k].nt = 0 /\ hist[k].ta
        /\ hist[k].r # None /\ Unwrap(hist[k].r) < hist[k].p + timeout)
       => /\ calls[k] = 1
          /\ due[k] = None
          /\ k \notin Live(pressed)
    /\ (lastOp = "tick" /\ ~hist[k].active)
       => calls[k] = 0 /\ due[k] = None

\* The tick after a press and a later release short of the threshold.
C3_Witness ==
  \E k \in watch :
    /\ lastOp = "tick"
    /\ hist[k].active /\ hist[k].n = 0 /\ hist[k].nt = 0 /\ hist[k].ta
    /\ hist[k].r # None /\ Unwrap(hist[k].r) > hist[k].p
    /\ Unwrap(hist[k].r) < hist[k].p + timeout
    /\ calls[k] = 1 /\ next_tick = None

\* C4.  A ReleasePending key with backlog n pressed again at q (hist.p): the
\* first tick before q + timeout invokes the handler (which leaves repeat
\* enabled) n + 1 times, a further tick before q + timeout invokes it zero
\* times, and both report q + timeout as the deadline.
C4_Repress ==
  \A k \in watch :
    (/\ lastOp = "tick"
     /\ hist[k].active /\ hist[k].re /\ hist[k].r = None /\ ~hist[k].off
     /\ clock < hist[k].p + timeout)
    => /\ calls[k] = IF hist[k].nt = 1 THEN hist[k].n + 1 ELSE 0
       /\ hist[k].fired = hist[k].n + 1
       /\ due[k] = Some(hist[k].p + timeout)
       /\ next_tick = Some(hist[k].p + timeout)

\* A further tick after a re-press, later than the first press, that carried
\* a backlog.
C4_Witness ==
  \E k \in watch :
    /\ lastOp = "tick"
    /\ hist[k].active /\ hist[k].re /\ hist[k].r = None /\ ~hist[k].off
    /\ hist[k].n >= 1 /\ hist[k].p >= 1 /\ hist[k].nt = 2
    /\ clock < hist[k].p + timeout
    /\ calls[k] = 0 /\ hist[k].fired = hist[k].n + 1


\* The map without the entry of k, and an iteration order without k.
Without(order, k) == SelectSeq(order, LAMBDA x : x # k)

\* C5, state part: a key the handler disabled has no live state; releasing it
\* trips no assertion, leaves every other entry as it was and creates no
\* state for it; and a tick over the map gives the other keys the same
\* invocations, deadlines, return value and states as a tick over the map
\* from which the disabled key's tombstone is absent.
C5_DisabledIsInert ==
  \A k \in disabled :
    /\ k \notin Live(pressed)
    /\ \A now \in clock..horizon :
         \A r \in {Keys_on_key_release(pressed, now, k, timeout, interval)} :
           /\ ~r.assert_failed
           /\ r.pressed = Remove(pressed, k)
    /\ k \in DOMAIN pressed =>
         \A now \in clock..horizon, handler \in HandlerOf(Live(pressed)),
            order \in Orders(pressed) :
           \A a \in {Keys_tick(pressed, now, handler, order, timeout, interval)},
              b \in {Keys_tick(Remove(pressed, k), now, handler,
                               Without(order, k), timeout, interval)} :
             /\ a.calls = b.calls /\ a.calls[k] = 0
             /\ a.due = b.due /\ a.due[k] = None
             /\ a.change = b.change
             /\ a.next_tick = b.next_tick
             /\ Remove(a.pressed, k) = b.pressed

\* C5, step part: a key that is disabled before and after a step (so the step
\* is not a press of it) gets no handler invocation and contributes no
\* deadline in that step.
C5_DisabledNoCalls ==
  \A k \in Key :
    (k \in disabled /\ k \in disabled') => (calls'[k] = 0 /\ due'[k] = None)

\* C5: once the handler has disabled a key, no tick invokes the handler for it
\* and it contributes no deadline until it is pressed again; a release of it
\* in between is harmless; and the other keys repeat as if it were absent.
C5_DisablePermanent == [](C5_DisabledIsInert) /\ [][C5_DisabledNoCalls]_vars

\* A tick served another key two events while a key disabled by an earlier
\* tick got none.
C5_Witness ==
  /\ lastOp = "tick"
  /\ \E k \in disabled : \E j \in Key \ {k} :
       /\ k \in DOMAIN pressed
       /\ calls[k] = 0
       /\ calls[j] >= 2

\* C6: right after a tick, another tick at the same instant invokes the
\* handler for no key, returns Unchanged and the same deadline, and leaves the
\* map as it is, whatever the handler and the iteration order.
C6_TickIdempotent ==
  (lastOp = "tick" /\ ~panicked) =>
    \A handler \in HandlerOf(Live(pressed)), order \in Orders(pressed) :
      \A r \in {Keys_tick(pressed, clock, handler, order, timeout, interval)} :
        /\ r.calls = NoCalls
        /\ r.change = Default
        /\ r.next_tick = next_tick
        /\ r.pressed = pressed
        /\ ~r.assert_failed

\* A tick that found nothing due at the instant at which a key was pressed
\* and already served its first event: a second tick at that instant.
C6_Witness ==
  /\ lastOp = "tick"
  /\ calls = NoCalls
  /\ \E k \in Key :
       /\ Is(k, {"Repeated"})
       /\ Unwrap(pressed[k]).pressed_at = clock
       /\ Unwrap(pressed[k]).fire_count = 0
       /\ next_tick = Some(clock + timeout)

\* The deadlines of the keys that have a live state.
LiveDeadlines ==
  UNION {KeyState_next_tick(Unwrap(pressed[k])) : k \in Live(pressed)}

\* C7: the deadline a tick returns is the earliest deadline over the keys
\* that still have a live state, each key's being its next_tick; it is None
\* exactly when no key has a live state; a key without live state
\* contributes none.
C7_ReturnedDeadline ==
  lastOp = "tick" =>
    /\ next_tick = (IF LiveDeadlines = {} THEN None ELSE Some(Min(LiveDeadlines)))
    /\ (next_tick = None) <=> (Live(pressed) = {})
    /\ \A k \in Key :
         due[k] = (IF k \in Live(pressed)
                   THEN KeyState_next_tick(Unwrap(pressed[k])) ELSE None)

\* A tick with two keys left live whose deadlines differ, in either iteration
\* order of the minimum.
C7_Witness ==
  /\ lastOp = "tick"
  /\ Live(pressed) = Key
  /\ due["h"] # None /\ due["l"] # None
  /\ Unwrap(due["l"]) < Unwrap(due["h"])
  /\ next_tick = due["l"]

\* C8: a key released at instant r and then ticked with an enabling handler
\* gets one event for the first press plus one for each auto-repeat deadline
\* strictly before r; a deadline equal to r is not delivered.
C8_ReleaseAtDeadline ==
  \A k \in watch :
    (/\ lastOp = "tick" /\ hist[k].active /\ hist[k].n = 0
     /\ hist[k].r # None /\ hist[k].ta /\ ~hist[k].off)
    => hist[k].fired = 1 + Cardinality({d \in Deadlines(hist[k].p) :
                                          d < Unwrap(hist[k].r)})

\* C9 as stated: a release of a key that is already ReleasePending always
\* ends in the fatal assertion.
C9_AlwaysFatal ==
  [][\A k \in keys :
       (Is(k, {"ReleasePending"}) /\ (\E now \in clock..horizon : Release(k, now)))
       => panicked']_vars

\* C9, amended: releasing a key that is already ReleasePending reaches the
\* debug assertion, which is fatal in a build with debug assertions and
\* compiled out otherwise; in either case the map, and with it the key's
\* backlog, is unaltered; and the assertion is reached in no other way.
C9_DebugAssertion ==
  /\ \A k \in keys :
       Is(k, {"ReleasePending"}) =>
         \A now \in clock..horizon :
           \A r \in {Keys_on_key_release(pressed, now, k, timeout, interval)} :
             /\ r.assert_failed
             /\ r.pressed = pressed
             /\ Panics(r.assert_failed) = {TRUE, FALSE}
  /\ \A k \in keys :
       ~Is(k, {"ReleasePending"}) =>
         \A now \in clock..horizon :
           ~Keys_on_key_release(pressed, now, k, timeout, interval).assert_failed
  /\ panicked => (lastOp = "release" /\ \E k \in keys : Is(k, {"ReleasePending"}))

\* press, release, release without a tick in between, in a build with debug
\* assertions: the program has panicked and the key still has its backlog.
C9_Witness ==
  /\ panicked
  /\ lastOp = "release"
  /\ \E k \in watch :
       /\ hist[k].active /\ hist[k].nt = 0 /\ hist[k].r # None /\ ~hist[k].re
       /\ pressed[k] = Some(ReleasePending(hist[k].p, 1))

\* C10 as stated: releasing a key that is not tracked, or whose backlog is
\* drained, including a ReleasePending key with zero backlog that no tick has
\* visited yet, trips no assertion.
C10_ZeroBacklogSilent ==
  \A k \in Key :
    (k \notin Live(pressed)
       \/ (Is(k, {"ReleasePending"}) /\ Unwrap(pressed[k]).fire_count = 0))
    => \A now \in clock..horizon :
         ~Keys_on_key_release(pressed, now, k, timeout, interval).assert_failed

\* C10, amended: releasing a key that has no entry or whose entry is a
\* tombstone trips no assertion, creates no state for it, leaves every other
\* entry as it was, and a following tick invokes the handler for it not at
\* all; a ReleasePending key with zero backlog that no tick has visited yet
\* is not such a key: releasing it reaches the assertion.
C10_UntrackedSilent ==
  /\ \A k \in Key :
       k \notin Live(pressed) =>
         \A now \in clock..horizon :
           \A r \in {Keys_on_key_release(pressed, now, k, timeout, interval)} :
             /\ ~r.assert_failed
             /\ r.pressed = Remove(pressed, k)
             /\ \A handler \in HandlerOf(Live(r.pressed)),
                   order \in Orders(r.pressed) :
                  \A t \in {Keys_tick(r.pressed, now, handler, order,
                                      timeout, interval)} :
                    /\ t.calls[k] = 0
                    /\ t.due[k] = None
                    /\ k \notin DOMAIN t.pressed
  /\ \A k \in Key :
       (Is(k, {"ReleasePending"}) /\ Unwrap(pressed[k]).fire_count = 0) =>
         \A now \in clock..horizon :
           Keys_on_key_release(pressed, now, k, timeout, interval).assert_failed

\* A release that was a silent no-op: the key it named has no entry (it was
\* disabled earlier and its tombstone is gone) and the other key is held.
C10_Witness ==
  /\ lastOp = "release"
  /\ ~panicked
  /\ \E k \in disabled : \E j \in Key \ {k} :
       /\ k \notin DOMAIN pressed
       /\ Is(j, {"Pressed", "Repeated"})

\* C11: pressing a key that is Pressed or Repeated, at any instant, leaves
\* its state and the whole map as they are and trips no assertion, so that
\* every later call finds the state it would have found without the press.
C11_DuplicatePress ==
  \A k \in Key :
    Is(k, {"Pressed", "Repeated"}) =>
      \A now \in clock..horizon :
        \A r \in {Keys_on_key_press(pressed, now, k, timeout, interval)} :
          /\ r.pressed = pressed
          /\ ~r.assert_failed

\* The latest call was a press (the map is not empty, so it was not a clear)
\* that gave no key a state pressed at its instant: a duplicate press of a
\* key that had started to repeat.
C11_Witness ==
  /\ lastOp = "other"
  /\ Live(pressed) # {}
  /\ \A k \in Live(pressed) : Unwrap(pressed[k]).pressed_at < clock
  /\ \E k \in Key : Is(k, {"Repeated"}) /\ Unwrap(pressed[k]).next_repeat > clock

\* C12, state part: a key that is never pressed has no entry in the map, and
\* the latest tick made no handler invocation for it and took no deadline
\* from it.
C12_NeverPressedAbsent ==
  \A k \in Key \ keys :
    /\ k \notin DOMAIN pressed
    /\ calls[k] = 0
    /\ due[k] = None

\* C12, step part: releasing a key that is never pressed leaves the map as it
\* is and trips no assertion.
C12_StrayReleaseNoOp ==
  \A k \in Key \ keys :
    (\E now \in clock..horizon : Release(k, now))
    => (pressed' = pressed /\ ~panicked')

\* C12: for a key that was never pressed, on_key_release leaves the registry
\* unchanged and no tick ever invokes the handler for it, whatever happens to
\* the other keys.
C12_NeverPressed == [](C12_NeverPressedAbsent) /\ [][C12_StrayReleaseNoOp]_vars

\* The latest call was the release of a never pressed key: a pressed key is
\* still repeating.
C12_Witness ==
  /\ lastOp = "release"
  /\ ~panicked
  /\ Key \ keys # {}
  /\ \E j \in keys : Is(j, {"Repeated"}) /\ Unwrap(pressed[j]).pressed_at < clock

\* The entries of the map that are tombstones.
Tombstones(map) == {k \in DOMAIN map : map[k] = None}

\* C13: tombstones are reclaimed by later ticks.  With no key live a tick
\* does the same at every instant, so that a tombstone a tick left behind is
\* removed after finitely many further ticks only if a further tick removes
\* one: when the map holds tombstones only, some tick removes a tombstone.
C13_TicksReclaim ==
  (lastOp = "tick" /\ Live(pressed) = {} /\ Tombstones(pressed) # {}) =>
    \E now \in clock..horizon, handler \in HandlerOf(Live(pressed)),
       order \in Orders(pressed) :
      Tombstones(Keys_tick(pressed, now, handler, order,
                           timeout, interval).pressed) # Tombstones(pressed)

\* C14: for a key whose entry is a tombstone, every operation does what it
\* does on the map without that entry: a press gives the key a fresh Pressed
\* state at now with fire_count 0, a release trips no assertion and leaves the
\* key without entry, and a tick makes no handler invocation for it, takes no
\* deadline from it and treats the other keys alike.
C14_TombstoneIsAbsent ==
  \A k \in Tombstones(pressed) :
    \A now \in clock..horizon :
      /\ \A a \in {Keys_on_key_press(pressed, now, k, timeout, interval)},
            b \in {Keys_on_key_press(Remove(pressed, k), now, k,
                                     timeout, interval)} :
           /\ a = b
           /\ a.pressed[k] = Some(Pressed(now, 0))
           /\ ~a.assert_failed
      /\ \A a \in {Keys_on_key_release(pressed, now, k, timeout, interval)},
            b \in {Keys_on_key_release(Remove(pressed, k), now, k,
                                       timeout, interval)} :
           /\ a = b
           /\ k \notin DOMAIN a.pressed
           /\ ~a.assert_failed
      /\ \A handler \in HandlerOf(Live(pressed)), order \in Orders(pressed) :
           \A a \in {Keys_tick(pressed, now, handler, order, timeout, interval)},
              b \in {Keys_tick(Remove(pressed, k), now, handler,
                               Without(order, k), timeout, interval)} :
             /\ a.calls = b.calls /\ a.calls[k] = 0
             /\ a.due = b.due /\ a.due[k] = None
             /\ a.change = b.change
             /\ a.next_tick = b.next_tick
             /\ a.disabled = b.disabled
             /\ Remove(a.pressed, k) = b.pressed

\* A tick passed over the tombstone of a key that was released and drained
\* in an earlier tick, and served the other key.
C14_Witness ==
  /\ lastOp = "tick"
  /\ \E k \in Tombstones(pressed) : \E j \in Key \ {k} :
       /\ k \notin disabled
       /\ calls[k] = 0
       /\ Is(j, {"Repeated"})
       /\ calls[j] >= 1

\* No key is tracked: the map is empty, a release of any key at any later
\* instant trips no assertion and leaves it empty, and a tick at any later
\* instant invokes the handler for no key, returns the default aggregate and
\* no deadline and leaves the map empty.
Quiet ==
  /\ pressed = EmptyMap
  /\ \A now \in clock..horizon :
       /\ \A k \in Key :
            \A r \in {Keys_on_key_release(pressed, now, k, timeout, interval)} :
              r.pressed = EmptyMap /\ ~r.assert_failed
       /\ \A handler \in HandlerOf(Live(pressed)), order \in Orders(pressed) :
            \A t \in {Keys_tick(pressed, now, handler, order, timeout, interval)} :
              /\ t.calls = NoCalls
              /\ t.change = Default
              /\ t.next_tick = None
              /\ t.pressed = EmptyMap
              /\ ~t.assert_failed

\* C15: clear() discards every tracked key, live or tombstoned, backlog
\* included, and invokes no handler; from then on, until a key is pressed,
\* ticks make no invocation and return the default aggregate and no deadline,
\* and releases are ignored.
C15_ClearDiscardsAll ==
  [][Clear => (Quiet' /\ calls' = NoCalls /\ ~panicked')]_vars

\* The state a clear() leaves behind, some time after the first call.
C15_Witness ==
  /\ lastOp = "other"
  /\ pressed = EmptyMap
  /\ clock > 0
  /\ calls = NoCalls

\* C16: the aggregate a tick returns is the combination, starting from the
\* default value, of the values the handler returned in the invocations of
\* that call: it is Changed exactly when the handler was invoked for a key
\* for which it returns Changed, and the default otherwise, in particular
\* when the handler was not invoked.
C16_Aggregate ==
  /\ \A now \in clock..horizon, handler \in HandlerOf(Live(pressed)),
        order \in Orders(pressed) :
       \A t \in {Keys_tick(pressed, now, handler, order, timeout, interval)} :
         /\ (t.change # Default) <=>
              (\E k \in Live(pressed) : t.calls[k] > 0 /\ handler[k].ret # Default)
         /\ t.change = "Changed" \/ t.change = Default
  /\ (lastOp = "tick" /\ calls = NoCalls) => change = Default

\* A tick that invoked the handler for both keys and returned the default
\* aggregate.
C16_Witness ==
  /\ lastOp = "tick"
  /\ change = Default
  /\ \A k \in Key : calls[k] >= 1

\* C17: every tick call terminates, for any timeout and interval, zero
\* included: a call that has been entered returns, after finitely many
\* handler invocations, also when the handler leaves repeat enabled.
C17_TickTerminates == Running ~> (lastOp = "tick")

\* The handler that returns Changed for every key and sets the flag to
\* Disabled on its d-th invocation for key k in a call (never, if d = 0).
DisablingAt(k, d) ==
  [j \in Live(pressed) |->
     [ret |-> "Changed", dis |-> IF j = k THEN d ELSE 0]]

\* C18: a tick whose handler disables repeat on its d-th invocation for a
\* key makes, if an enabling handler would be invoked for it d times or
\* more, exactly d invocations for it, leaves it without live state and
\* takes no deadline from it, whatever state and backlog it had; if fewer
\* than d are due the tick does what it does with the enabling handler.
\* After a tick, a key whose handler disabled repeat has no live state.
C18_DisableIsLast ==
  /\ \A k \in Live(pressed), d \in DisableAt \ {0}, now \in clock..horizon,
        order \in Orders(pressed) :
       \A e \in {Keys_tick(pressed, now, DisablingAt(k, 0), order,
                           timeout, interval)},
          t \in {Keys_tick(pressed, now, DisablingAt(k, d), order,
                           timeout, interval)} :
         IF e.calls[k] >= d
         THEN /\ t.calls[k] = d
              /\ k \in t.disabled
              /\ k \notin Live(t.pressed)
              /\ t.due[k] = None
         ELSE t = e
  /\ lastOp = "tick" =>
       \A k \in watch :
         hist[k].off => (k \notin Live(pressed) /\ due[k] = None /\ calls[k] >= 1)

\* The handler disabled repeat on the first invocation for a key that had
\* been released two intervals or more after its threshold: one event of a
\* backlog of four or more was delivered.
C18_Witness ==
  /\ lastOp = "tick"
  /\ \E k \in watch :
       /\ hist[k].off /\ ~hist[k].re
       /\ hist[k].nt = 0
       /\ hist[k].r # None
       /\ Unwrap(hist[k].r) >= hist[k].p + timeout + 2 * interval
       /\ hist[k].fired = 1
       /\ calls[k] = 1
       /\ k \notin DOMAIN pressed

\* The backlog of a key with a live state.
Backlog(map, k) == Unwrap(map[k]).fire_count

\* C19, state part: a backlog is never negative; one advance of a key that
\* is due takes one off a positive backlog and leaves a zero backlog at
\* zero; a press of the key leaves the backlog as it is and a release does
\* not make it smaller.
C19_BacklogState ==
  \A k \in Live(pressed) :
    /\ Backlog(pressed, k) >= 0
    /\ KeyState_next_tick(Unwrap(pressed[k])) # None =>
         KeyState_tick(Unwrap(pressed[k]), timeout, interval).fire_count
           = (IF Backlog(pressed, k) > 0 THEN Backlog(pressed, k) - 1 ELSE 0)
    /\ \A now \in clock..horizon :
         /\ KeyState_on_press(Unwrap(pressed[k]), now).fire_count
              = Backlog(pressed, k)
         /\ KeyState_on_release(Unwrap(pressed[k]), now, timeout,
                                interval).state.fire_count >= Backlog(pressed, k)

\* C19, step part: for a key that has a live state before and after a call,
\* a tick takes one off the backlog for each handler invocation it makes for
\* the key while the backlog is positive, a release does not make it smaller,
\* and a press (a re-press included) leaves it unchanged.
C19_BacklogStep ==
  \A k \in Live(pressed) \cap Live(pressed') :
    /\ lastOp' = "tick" =>
         Backlog(pressed', k) = (IF Backlog(pressed, k) > calls'[k]
                                 THEN Backlog(pressed, k) - calls'[k] ELSE 0)
    /\ lastOp' = "release" => Backlog(pressed', k) >= Backlog(pressed, k)
    /\ lastOp' = "other" => Backlog(pressed', k) = Backlog(pressed, k)

\* C19: a tracked key's fire_count is increased only by on_key_release, is
\* carried over unchanged by a press, is decreased only inside tick, by one
\* per handler invocation for that key, and never goes below zero.
C19_BacklogAccounting == [](C19_BacklogState) /\ [][C19_BacklogStep]_vars

\* A re-press carried a backlog of two or more over, and a tick delivered it
\* and the press: the key repeats with an empty backlog.
C19_Witness ==
  /\ lastOp = "tick"
  /\ \E k \in watch :
       /\ hist[k].re /\ hist[k].n >= 2
       /\ Is(k, {"Repeated"})
       /\ Backlog(pressed, k) = 0
       /\ hist[k].fired = hist[k].n + 1

\* The handler invocations for a key pressed at p and released at r when no
\* tick comes before the release: the backlog the release leaves.
NoTickCount(p, r) ==
  KeyState_on_release(KeyState_pressed(p), r, timeout, interval).state.fire_count

\* C20: for a key pressed afresh at p and released at r, with a handler that
\* never disables repeat, the handler invocations counted after a tick that
\* follows the release are as many as when no tick comes before the release,
\* however many ticks were interleaved before the instant of the release
\* and whenever.
C20_ScheduleIndependent ==
  \A k \in watch :
    (/\ lastOp = "tick" /\ hist[k].active /\ ~hist[k].re /\ hist[k].n = 0
     /\ hist[k].r # None /\ hist[k].ta /\ ~hist[k].off
     /\ (hist[k].lt = None \/ Unwrap(hist[k].lt) < Unwrap(hist[k].r)))
    => hist[k].fired = NoTickCount(hist[k].p, Unwrap(hist[k].r))

\* C21: after tick(now) has returned every key with a live state has a
\* deadline, which is after now, so that the deadline the tick returns, if
\* any, is after now; the calls being made at instants that do not decrease,
\* every key with a live state is Repeated with an empty backlog and
\* next_repeat after now.
C21_NothingDueAfterTick ==
  lastOp = "tick" =>
    /\ \A k \in Live(pressed) :
         /\ KeyState_next_tick(Unwrap(pressed[k])) # None
         /\ Unwrap(KeyState_next_tick(Unwrap(pressed[k]))) > clock
         /\ Is(k, {"Repeated"})
         /\ Unwrap(pressed[k]).fire_count = 0
         /\ Unwrap(pressed[k]).next_repeat > clock
    /\ next_tick # None => Unwrap(next_tick) > clock

\* A tick delivered the press of a key and a repeat that was due exactly at
\* now: the key's next repeat is one interval after now; the other key is
\* live too.
C21_Witness ==
  /\ lastOp = "tick"
  /\ Live(pressed) = Key
  /\ \E k \in Key :
       /\ calls[k] >= 2
       /\ Unwrap(pressed[k]).next_repeat = clock + interval
       /\ Unwrap(pressed[k]).next_repeat
            = Unwrap(pressed[k]).pressed_at + timeout + interval
       /\ next_tick = Some(clock + interval)

\* C22: between the calls a key that is Repeated has fire_count 0; a positive
\* backlog is held by Pressed and ReleasePending keys only.
C22_RepeatedHasNoBacklog ==
  \A k \in Live(pressed) :
    /\ Is(k, {"Repeated"}) => Backlog(pressed, k) = 0
    /\ Backlog(pressed, k) > 0 => Is(k, {"Pressed", "ReleasePending"})

\* A Pressed key (no tick since its press) was released after its threshold:
\* it was promoted inside on_release and is ReleasePending with the press and
\* a repeat as backlog.
C22_Witness ==
  /\ lastOp = "release"
  /\ \E k \in watch :
       /\ hist[k].active /\ ~hist[k].re /\ hist[k].nt = 0
       /\ hist[k].r = Some(clock)
       /\ clock >= hist[k].p + timeout
       /\ Is(k, {"ReleasePending"})
       /\ Backlog(pressed, k) >= 2

\* C23: when each key's events alternate press, release, press, ...,
\* starting with a press, no call panics: neither the assertion in
\* on_release nor the one after the removal in tick fails, whatever the order
\* of the keys' events, the instants of the ticks, the clears and the keys
\* the handler disables.  A key whose release is still to come has no state
\* or is Pressed or Repeated, and its release at any instant reaches no
\* assertion.
C23_WellFormedNeverAsserts ==
  /\ ~panicked
  /\ \A k \in down :
       /\ k \in Live(pressed) => Is(k, {"Pressed", "Repeated"})
       /\ \A now \in clock..horizon :
            ~Keys_on_key_release(pressed, now, k, timeout, interval).assert_failed
  /\ \A k \in Key \ down : k \in Live(pressed) => Is(k, {"ReleasePending"})

\* In an alternating stream a key the handler had disabled was released, the
\* release being ignored, while the other key is held and repeats.
C23_Witness ==
  /\ alternate
  /\ lastOp = "release"
  /\ \E k \in disabled : \E j \in down :
       /\ k \notin down
       /\ k \notin Live(pressed)
       /\ Is(j, {"Repeated"})

====
